---- MODULE Spec2Model ----
(***************************************************************************)
(* Model of telegram-bridge.mjs: the long-poll ingestion loop              *)
(* (pollTelegram / handleMessage), the reply-watch timer (checkForReply),  *)
(* the typing-indicator timers and the transport helper sendMessage.       *)
(*                                                                         *)
(* The bridge is a single-threaded Node.js process: code between two       *)
(* awaits on network I/O runs atomically.  Every action below is one such  *)
(* segment; the steps between them are the points where the other async    *)
(* function, a timer callback, the agent or a Telegram user can act.       *)
(*                                                                         *)
(* Text is a sequence of symbols.  User texts and agent texts are spelled  *)
(* symbol by symbol; the fixed notices of the bridge are one symbol each   *)
(* (all of them are far shorter than the chunk size).                      *)
(***************************************************************************)
EXTENDS Integers, Sequences, FiniteSets, TLC

\* ---------------------------------------------------------------- bounds
MaxUpdates == 2     \* updates Telegram users send
MaxTurns == 2       \* turns the agent produces after the bridge booted
MaxTicks == 2       \* checkForReply invocations in flight at once
MaxClock == 1       \* Date.now() ranges over 0..MaxClock
MaxChunks == 3      \* SendSpec: texts of up to MaxChunks full chunks

\* ------------------------------------------------------- program constants
ChunkLimit == 4000
NoChat == 0         \* replyTargetChatId = null (0 and null are both falsy)
NoTurn == 0         \* lastTurnId = null
NoTimer == 0        \* typingInterval = null
BootTurn == 1       \* id of the turn that exists before the bridge starts

ALLOWED_IDS == {1, 2}

REJECT_TEXT == <<"You are not authorised to talk to this Automaton.">>
WELCOME_TEXT == <<"*Automaton bridge is online.*">>
ACK_TEXT == <<"*Message received.* Waiting for your Automaton to respond...">>
INJECT_PREFIX == <<"[Direct message from your Creator via Telegram - please respond conversationally and directly to them]: ">>

CMD_START == <<"/", "s", "t", "a", "r", "t">>
CMD_HELLO == <<"/", "h", "e", "l", "l", "o">>
CMD_STATUS == <<"/", "s", "t", "a", "t", "u", "s">>

\* ------------------------------------------------------------ pure helpers
Min(a, b) == IF a < b THEN a ELSE b

IsSpace(c) == c \in {" ", "\t", "\n"}

RECURSIVE TrimStart(_)
TrimStart(s) ==
    IF Len(s) > 0 /\ IsSpace(s[1]) THEN TrimStart(SubSeq(s, 2, Len(s))) ELSE s

RECURSIVE TrimEnd(_)
TrimEnd(s) ==
    IF Len(s) > 0 /\ IsSpace(s[Len(s)]) THEN TrimEnd(SubSeq(s, 1, Len(s) - 1)) ELSE s

\* String.prototype.trim
Trim(s) == TrimEnd(TrimStart(s))

SliceShort(text, i, j) == SubSeq(text, i + 1, Min(j - 1, Len(text)))

\* text.slice(i, j) with 0-based i and exclusive j, clamped to the length
Slice(text, i, j) == SubSeq(text, i + 1, Min(j, Len(text)))

RECURSIVE ChunksFrom(_, _)
ChunksFrom(text, i) ==
    IF i < Len(text)
    THEN <<Slice(text, i, i + ChunkLimit)>> \o ChunksFrom(text, i + ChunkLimit)
    ELSE <<>>

\* sendMessage, lines 119-120: the chunks of a text
Chunks(text) == ChunksFrom(text, 0)

RECURSIVE Concat(_)
Concat(ss) == IF ss = <<>> THEN <<>> ELSE Head(ss) \o Concat(Tail(ss))

\* ------------------------------------------------------------------ state
VARIABLES
    updates,            \* Telegram server: unconfirmed updates, oldest first
    updateSeq,          \* Telegram server: update_id of the newest update
    turns,              \* table turns, ordered by timestamp
    sleepUntil,         \* kv row 'sleep_until' exists
    inbox,              \* table inbox_messages, in insertion order
    clock,              \* the latest value Date.now() returned
    lastUpdateId, lastTurnId, waitingForReply, replyTargetChatId, typingInterval,
    timers,             \* live setInterval timers: [id, chat]
    timerSeq,           \* timers created so far
    pollPc,             \* where pollTelegram / handleMessage is suspended
    batch,              \* res.result: updates of the for loop still to handle
    hChat,              \* chatId of the suspended handleMessage
    hSend,              \* sendMessage call handleMessage awaits
    checks,             \* sendMessage calls the checkForReply invocations await
    out,                \* the requests the last step issued, in order
    history             \* accepted messages and forwarded replies, in order

vars == <<updates, updateSeq, turns, sleepUntil, inbox, clock, lastUpdateId, lastTurnId,
          waitingForReply, replyTargetChatId, typingInterval, timers, timerSeq,
          pollPc, batch, hChat, hSend, checks, out, history>>

\* ------------------------------------------------------------- environment
Senders == {[from |-> 1, chat |-> 11], [from |-> 2, chat |-> 12], [from |-> 3, chat |-> 13]}

UserTexts == {<<" ", "h", "i">>, <<" ">> \o CMD_STATUS \o <<"\n">>, CMD_START, CMD_HELLO, <<" ">>}

\* what an update of getUpdates carries: a message, or something else
\* user 2 only sends plain text
TextsOf(u) == IF u = 2 THEN {<<" ", "h", "i">>} ELSE UserTexts

Messages ==
    UNION {{[has |-> TRUE, from |-> s.from, chat |-> s.chat, text |-> t] : t \in TextsOf(s.from)}
           : s \in Senders}
    \cup {[has |-> FALSE, from |-> 0, chat |-> NoChat, text |-> <<>>]}

\* column thinking of a turn: blank, or a text to be trimmed
Thinkings == {<<" ", "\n">>, <<" ", "o", "k", "\n">>}

\* authorized senders' plain text
PlainMessages == {m \in Messages : m.has /\ m.from \in ALLOWED_IDS /\ m.text = <<" ", "h", "i">>}

Digits == <<"0", "1", "2", "3", "4", "5", "6", "7", "8", "9">>

\* ------------------------------------------------------------ sendMessage
Outcomes == {"ok", "notok", "reject"}

IdleSend ==
    [chat |-> NoChat, chunks |-> <<>>, i |-> 0, plain |-> FALSE, kind |-> "none", st |-> "idle",
     sent |-> <<>>]

Request(chatId, text, markdown, kind) ==
    [chat |-> chatId, text |-> text, markdown |-> markdown, kind |-> kind]

\* sendMessage up to its first await: the chunks, and the first request in flight
NewSend(chatId, text, kind) ==
    LET c == Chunks(text)
    IN  [chat |-> chatId, chunks |-> c, i |-> 1, plain |-> FALSE, kind |-> kind,
         st |-> IF c = <<>> THEN "done" ELSE "wait",
         sent |-> IF c = <<>> THEN <<>> ELSE <<Request(chatId, c[1], TRUE, kind)>>]

\* sendMessage, lines 122-132, resumed by the outcome of the request in flight:
\* a rejected promise throws, a Markdown request that is not ok is repeated as
\* plain text, anything else moves on to the next chunk; sent is the list of the
\* requests this call has issued
SendStep(s, outcome) ==
    IF outcome = "reject" THEN [s EXCEPT !.st = "threw"]
    ELSE IF outcome = "notok" /\ ~s.plain
    THEN [s EXCEPT !.plain = TRUE,
                   !.sent = Append(s.sent, Request(s.chat, s.chunks[s.i], FALSE, s.kind))]
    ELSE IF s.i < Len(s.chunks)
    THEN [s EXCEPT !.i = s.i + 1, !.plain = FALSE,
                   !.sent = Append(s.sent, Request(s.chat, s.chunks[s.i + 1], TRUE, s.kind))]
    ELSE [s EXCEPT !.st = "done"]

\* the request a sendMessage call has just put in flight
Requests(s) == IF s.st = "wait" THEN <<s.sent[Len(s.sent)]>> ELSE <<>>

\* sendTyping, line 136
TypingRequest(chatId) == Request(chatId, <<>>, FALSE, "typing")

\* ---------------------------------------------------------------- storage
InsertAlways(rows, row) == Append(rows, row)

\* INSERT OR IGNORE INTO inbox_messages: id is the primary key
InsertOrIgnore(rows, row) ==
    IF \E k \in 1..Len(rows) : rows[k].id = row.id THEN rows ELSE Append(rows, row)

\* SELECT ... FROM turns ORDER BY timestamp DESC LIMIT 1
HasTurn(ts) == ts # <<>>
LatestTurn(ts) == ts[Len(ts)]

LatestOnBootNone(ts) == NoTurn

\* lines 142-152: lastTurnId after boot
LatestOnBoot(ts) == IF HasTurn(ts) THEN LatestTurn(ts).id ELSE NoTurn

IsAllowedAnyone(userId) == TRUE

\* line 209
IsAllowed(userId) == userId \in ALLOWED_IDS

\* line 218
IsStartCommand(text) == text = CMD_START \/ text = CMD_HELLO

IsStatusCommandNever(text) == FALSE

\* line 227
IsStatusCommand(text) == text = CMD_STATUS

\* lines 231-236
StatusText(ts, sleeping) ==
    <<"*Automaton Status*", "State: running", "Turns completed: ", Digits[Len(ts) + 1],
      IF sleeping THEN "Sleeping until: ..." ELSE "Not sleeping">>

\* injectMessage, lines 157-160: the row written for (userId, text) at time now
InboxRow(userId, text, now) ==
    [id |-> <<"tg", now, userId>>, from |-> <<"telegram", userId>>,
     content |-> INJECT_PREFIX \o text, received_at |-> now]

\* ------------------------------------------------------------------- Init
Init ==
    /\ updates = <<>>
    /\ updateSeq = 0
    /\ turns \in {<<>>} \cup {<<[id |-> BootTurn, thinking |-> t, awaited |-> FALSE]>> : t \in Thinkings}
    /\ sleepUntil = FALSE
    /\ inbox = <<>>
    /\ clock = 0
    /\ lastUpdateId = 0
    /\ lastTurnId = LatestOnBoot(turns)
    /\ waitingForReply = FALSE
    /\ replyTargetChatId = NoChat
    /\ typingInterval = NoTimer
    /\ timers = {}
    /\ timerSeq = 0
    /\ pollPc = "fetch"
    /\ batch = <<>>
    /\ hChat = NoChat
    /\ hSend = IdleSend
    /\ checks = [k \in 1..MaxTicks |-> IdleSend]
    /\ out = <<>>
    /\ history = <<>>

\* ------------------------------------------------- Telegram users, the agent
UserSendOf(M) ==
    /\ updateSeq < MaxUpdates
    /\ \E m \in M :
        updates' = Append(updates, [update_id |-> updateSeq + 1, message |-> m])
    /\ updateSeq' = updateSeq + 1
    /\ UNCHANGED <<turns, sleepUntil, inbox, clock, lastUpdateId, lastTurnId, waitingForReply,
                   replyTargetChatId, typingInterval, timers, timerSeq, pollPc, batch, hChat,
                   hSend, checks, history>>
    /\ out' = <<>>

UserSend == UserSendOf(Messages)

UserSendPlain == UserSendOf(PlainMessages)

NextTurnId(ts) == IF HasTurn(ts) THEN LatestTurn(ts).id + 1 ELSE BootTurn + 1

\* the agent appends a row to turns; awaited is a history field, not a column:
\* it records whether a reply was being awaited when the row was produced
AgentTurn ==
    /\ NextTurnId(turns) <= BootTurn + MaxTurns
    /\ \E t \in Thinkings :
        turns' = Append(turns, [id |-> NextTurnId(turns), thinking |-> t,
                                awaited |-> waitingForReply])
    /\ UNCHANGED <<updates, updateSeq, sleepUntil, inbox, clock, lastUpdateId, lastTurnId,
                   waitingForReply, replyTargetChatId, typingInterval, timers, timerSeq,
                   pollPc, batch, hChat, hSend, checks, history>>
    /\ out' = <<>>

AgentSleep ==
    /\ ~sleepUntil
    /\ sleepUntil' = TRUE
    /\ UNCHANGED <<updates, updateSeq, turns, inbox, clock, lastUpdateId, lastTurnId,
                   waitingForReply, replyTargetChatId, typingInterval, timers, timerSeq,
                   pollPc, batch, hChat, hSend, checks, out, history>>

\* -------------------------------------------------------------- pollTelegram
OnPollFailureExit == "exit"

\* lines 275-282: a failed poll is logged and followed by sleep(5000)
OnPollFailure == "sleep"

\* line 270: an error of handleMessage is caught and the for loop goes on
OnHandlerEnd == "batch"

\* lines 260-282: the getUpdates request in flight is answered
PollResponse ==
    /\ pollPc = "fetch"
    /\ \E outcome \in Outcomes :
        IF outcome = "ok"
        THEN LET result == SelectSeq(updates, LAMBDA u : u.update_id >= lastUpdateId + 1)
             IN  /\ updates' = result
                 /\ batch' = result
                 /\ pollPc' = "batch"
        ELSE /\ pollPc' = OnPollFailure
             /\ UNCHANGED <<updates, batch>>
    /\ UNCHANGED <<updateSeq, turns, sleepUntil, inbox, clock, lastUpdateId, lastTurnId,
                   waitingForReply, replyTargetChatId, typingInterval, timers, timerSeq,
                   hChat, hSend, checks, history>>
    /\ out' = <<>>

\* lines 277, 281: sleep(5000) is over, the loop issues getUpdates again
WakeUp ==
    /\ pollPc = "sleep"
    /\ pollPc' = "fetch"
    /\ UNCHANGED <<updates, updateSeq, turns, sleepUntil, inbox, clock, lastUpdateId,
                   lastTurnId, waitingForReply, replyTargetChatId, typingInterval, timers,
                   timerSeq, batch, hChat, hSend, checks, history>>
    /\ out' = <<>>

\* line 267 has run out of updates: back to line 260
IssueFetch ==
    /\ pollPc = "batch"
    /\ batch = <<>>
    /\ pollPc' = "fetch"
    /\ UNCHANGED <<updates, updateSeq, turns, sleepUntil, inbox, clock, lastUpdateId,
                   lastTurnId, waitingForReply, replyTargetChatId, typingInterval, timers,
                   timerSeq, batch, hChat, hSend, checks, history>>
    /\ out' = <<>>

StartWaitingFirstWins(waiting, target, chatId) ==
    [waiting |-> TRUE, target |-> IF waiting THEN target ELSE chatId]

\* lines 245-246
StartWaiting(waiting, target, chatId) == [waiting |-> TRUE, target |-> chatId]

\* handleMessage, lines 200-249: from the call to the first await (or the return)
HandleMessage(msg) ==
    LET userId == msg.from
        chatId == msg.chat
        text == Trim(msg.text)
        reply(t, kind) ==
            LET s == NewSend(chatId, t, kind)
            IN  /\ hSend' = s
                /\ out' = Requests(s)
                /\ pollPc' = "send"
                /\ hChat' = chatId
                /\ UNCHANGED <<inbox, sleepUntil, clock, waitingForReply, replyTargetChatId,
                               history>>
    IN  IF text = <<>>
        THEN /\ pollPc' = "batch"
             /\ out' = <<>>
             /\ UNCHANGED <<inbox, sleepUntil, clock, waitingForReply, replyTargetChatId,
                            hChat, hSend, history>>
        ELSE IF ~IsAllowed(userId) THEN reply(REJECT_TEXT, "reject")
        ELSE IF IsStartCommand(text) THEN reply(WELCOME_TEXT, "welcome")
        ELSE IF IsStatusCommand(text) THEN reply(StatusText(turns, sleepUntil), "status")
        ELSE \E now \in clock..MaxClock :
                LET w == StartWaiting(waitingForReply, replyTargetChatId, chatId)
                IN  /\ clock' = now
                    /\ inbox' = InsertOrIgnore(inbox, InboxRow(userId, text, now))
                    /\ sleepUntil' = FALSE
                    /\ waitingForReply' = w.waiting
                    /\ replyTargetChatId' = w.target
                    /\ history' = Append(history, [ev |-> "accept", chat |-> chatId])
                    /\ out' = <<TypingRequest(chatId)>>
                    /\ pollPc' = "typing"
                    /\ hChat' = chatId
                    /\ UNCHANGED hSend

\* lines 267-270: the next update of the batch
HandleUpdate ==
    /\ pollPc = "batch"
    /\ batch # <<>>
    /\ lastUpdateId' = Head(batch).update_id
    /\ batch' = Tail(batch)
    /\ IF Head(batch).message.has
       THEN HandleMessage(Head(batch).message)
       ELSE /\ out' = <<>>
            /\ UNCHANGED <<pollPc, inbox, sleepUntil, clock, waitingForReply,
                           replyTargetChatId, hChat, hSend, history>>
    /\ UNCHANGED <<updates, updateSeq, turns, lastTurnId, typingInterval, timers, timerSeq,
                   checks>>

\* lines 249-252: sendTyping has settled (its failure is swallowed)
HandleTypingDone ==
    /\ pollPc = "typing"
    /\ timerSeq' = timerSeq + 1
    /\ typingInterval' = timerSeq + 1
    /\ timers' = timers \cup {[id |-> timerSeq + 1, chat |-> hChat]}
    /\ LET s == NewSend(hChat, ACK_TEXT, "ack")
       IN  /\ hSend' = s
           /\ out' = Requests(s)
    /\ pollPc' = "send"
    /\ UNCHANGED <<updates, updateSeq, turns, sleepUntil, inbox, clock, lastUpdateId,
                   lastTurnId, waitingForReply, replyTargetChatId, batch, hChat, checks,
                   history>>

\* the sendMessage handleMessage awaits gets the outcome of its request; when it
\* returns or throws, handleMessage is over (line 270 catches the error)
HandleSendResponse ==
    /\ pollPc = "send"
    /\ \E outcome \in Outcomes :
        LET s == SendStep(hSend, outcome)
        IN  /\ out' = Requests(s)
            /\ IF s.st = "wait"
               THEN /\ hSend' = s
                    /\ UNCHANGED <<pollPc, hChat>>
               ELSE /\ hSend' = IdleSend
                    /\ hChat' = NoChat
                    /\ pollPc' = OnHandlerEnd
    /\ UNCHANGED <<updates, updateSeq, turns, sleepUntil, inbox, clock, lastUpdateId,
                   lastTurnId, waitingForReply, replyTargetChatId, typingInterval, timers,
                   timerSeq, batch, checks, history>>

\* ------------------------------------------------------------- checkForReply
FreeSlotPollIdle(k) ==
    /\ checks[k].st = "idle"
    /\ \A j \in 1..(k - 1) : checks[j].st # "idle"
    /\ pollPc \notin {"fetch", "typing", "send"}

\* line 287: every firing of the timer starts a checkForReply of its own
FreeSlot(k) == checks[k].st = "idle" /\ \A j \in 1..(k - 1) : checks[j].st # "idle"

IsReplyAnyId(latest, last) == Trim(latest.thinking) # <<>>

\* line 181
IsReply(latest, last) == latest.id # last /\ Trim(latest.thinking) # <<>>

ReplyFoundNotWaiting ==
    /\ replyTargetChatId # NoChat
    /\ HasTurn(turns)
    /\ IsReply(LatestTurn(turns), lastTurnId)

\* lines 175-181: this invocation has a reply to forward
ReplyFound ==
    /\ waitingForReply
    /\ replyTargetChatId # NoChat
    /\ HasTurn(turns)
    /\ IsReply(LatestTurn(turns), lastTurnId)

\* lines 174-193: the timer of line 287 fires; checkForReply runs to its await
ReplyTick ==
    \E k \in 1..MaxTicks :
        /\ FreeSlot(k)
        /\ IF ReplyFound
           THEN LET s == NewSend(replyTargetChatId, Trim(LatestTurn(turns).thinking), "reply")
                IN  /\ lastTurnId' = LatestTurn(turns).id
                    /\ waitingForReply' = FALSE
                    /\ timers' = {t \in timers : t.id # typingInterval}
                    /\ typingInterval' = NoTimer
                    /\ checks' = [checks EXCEPT ![k] = s]
                    /\ out' = Requests(s)
                    /\ history' = Append(history, [ev |-> "forward", chat |-> s.chat])
           ELSE /\ out' = <<>>
                /\ UNCHANGED <<lastTurnId, waitingForReply, timers, typingInterval, checks,
                               history>>
        /\ UNCHANGED <<updates, updateSeq, turns, sleepUntil, inbox, clock, lastUpdateId,
                       replyTargetChatId, timerSeq, pollPc, batch, hChat, hSend>>

\* lines 193-194: the sendMessage a checkForReply awaits gets the outcome of its
\* request; when it returns, replyTargetChatId = null; when it throws, line 288
TickSendResponse ==
    \E k \in 1..MaxTicks :
        /\ checks[k].st = "wait"
        /\ \E outcome \in Outcomes :
            LET s == SendStep(checks[k], outcome)
            IN  /\ out' = Requests(s)
                /\ IF s.st = "wait"
                   THEN /\ checks' = [checks EXCEPT ![k] = s]
                        /\ UNCHANGED replyTargetChatId
                   ELSE /\ checks' = [checks EXCEPT ![k] = IdleSend]
                        /\ replyTargetChatId' =
                              IF s.st = "done" THEN NoChat ELSE replyTargetChatId
        /\ UNCHANGED <<updates, updateSeq, turns, sleepUntil, inbox, clock, lastUpdateId,
                       lastTurnId, waitingForReply, typingInterval, timers, timerSeq, pollPc,
                       batch, hChat, hSend, history>>

\* line 250: a live typing timer fires and calls sendTyping
TypingFire ==
    /\ \E t \in timers : out' = <<TypingRequest(t.chat)>>
    /\ UNCHANGED <<updates, updateSeq, turns, sleepUntil, inbox, clock, lastUpdateId,
                   lastTurnId, waitingForReply, replyTargetChatId, typingInterval, timers,
                   timerSeq, pollPc, batch, hChat, hSend, checks, history>>

\* the process dies and is started again: lines 141-152 run anew and line 297
\* issues getUpdates with offset 1; the database, the updates Telegram has not
\* seen confirmed and the wall clock (which has moved on) survive
Restart ==
    /\ clock < MaxClock
    /\ clock' = clock + 1
    /\ lastUpdateId' = 0
    /\ lastTurnId' = LatestOnBoot(turns)
    /\ waitingForReply' = FALSE
    /\ replyTargetChatId' = NoChat
    /\ typingInterval' = NoTimer
    /\ timers' = {}
    /\ pollPc' = "fetch"
    /\ batch' = <<>>
    /\ hChat' = NoChat
    /\ hSend' = IdleSend
    /\ checks' = [k \in 1..MaxTicks |-> IdleSend]
    /\ out' = <<>>
    /\ UNCHANGED <<updates, updateSeq, turns, sleepUntil, inbox, timerSeq, history>>

\* -------------------------------------------------------------------- specs
PollNext ==
    \/ PollResponse
    \/ WakeUp
    \/ IssueFetch
    \/ HandleUpdate
    \/ HandleTypingDone
    \/ HandleSendResponse

Next ==
    \/ UserSend
    \/ AgentTurn
    \/ AgentSleep
    \/ PollNext
    \/ ReplyTick
    \/ TickSendResponse
    \/ TypingFire

Spec == Init /\ [][Next]_vars

\* the ingestion loop alone: no turn is produced, checkForReply finds nothing
PollSpecNext ==
    \/ UserSend
    \/ AgentSleep
    \/ PollNext

PollSpec == Init /\ [][PollSpecNext]_vars /\ WF_vars(PollNext)

\* the end-to-end scenario: authorized senders' plain messages and the agent's turns
ReplySpecNext ==
    \/ UserSendPlain
    \/ AgentTurn
    \/ PollNext
    \/ ReplyTick
    \/ TickSendResponse

\* the timer of line 287 keeps firing and every request is answered or fails
ReplySpec ==
    /\ Init
    /\ [][ReplySpecNext]_vars
    /\ WF_vars(PollNext)
    /\ WF_vars(ReplyTick)
    /\ WF_vars(TickSendResponse)

\* the ingestion loop of a bridge that can crash and be restarted, fed with
\* authorized senders' plain messages
RestartSpecNext ==
    \/ UserSendPlain
    \/ PollNext
    \/ Restart

RestartSpec == Init /\ [][RestartSpecNext]_vars

\* both loops, fed with two different plain messages of authorized user 1
TwoTexts ==
    {[has |-> TRUE, from |-> 1, chat |-> 11, text |-> t] : t \in {<<" ", "h", "i">>, <<"y", "o">>}}

UserSendTwoTexts == UserSendOf(TwoTexts)

AckSpecNext ==
    \/ UserSendTwoTexts
    \/ AgentTurn
    \/ PollNext
    \/ ReplyTick
    \/ TickSendResponse

AckSpec == Init /\ [][AckSpecNext]_vars

\* sendMessage on its own: a message of chat 11 has been accepted and the latest
\* turn is a text of any length up to MaxChunks chunks
Alphabet == <<"a", "b", "c", "d", "e", "f", "g">>
TextOfLen(n) == [k \in 1..n |-> Alphabet[(k % 7) + 1]]

SendLengths ==
    {k * ChunkLimit + d : k \in 0..(MaxChunks - 1), d \in {1, 1000, ChunkLimit - 1, ChunkLimit}}

SendTexts == {TextOfLen(n) : n \in SendLengths}

SendInit ==
    /\ updates = <<>>
    /\ updateSeq = 1
    /\ turns \in {<<[id |-> BootTurn + 1, thinking |-> t, awaited |-> TRUE]>> : t \in SendTexts}
    /\ sleepUntil = FALSE
    /\ inbox = <<InboxRow(1, <<"h", "i">>, 0)>>
    /\ clock = 0
    /\ lastUpdateId = 1
    /\ lastTurnId = NoTurn
    /\ waitingForReply = TRUE
    /\ replyTargetChatId = 11
    /\ typingInterval = 1
    /\ timers = {[id |-> 1, chat |-> 11]}
    /\ timerSeq = 1
    /\ pollPc = "fetch"
    /\ batch = <<>>
    /\ hChat = NoChat
    /\ hSend = IdleSend
    /\ checks = [k \in 1..MaxTicks |-> IdleSend]
    /\ out = <<>>
    /\ history = <<[ev |-> "accept", chat |-> 11]>>

SendNext ==
    \/ ReplyTick
    \/ TickSendResponse

SendSpec == SendInit /\ [][SendNext]_vars

\* ------------------------------------------------------------------ claims
\* the step in which pollTelegram takes the next update of the batch
Handling == lastUpdateId' # lastUpdateId
Handled == Head(batch).message

RejectRequest(chatId) == Request(chatId, REJECT_TEXT, TRUE, "reject")

\* C1, as amended: no inbox row ever comes from a sender outside the allowlist,
\* and handling a message with non-empty trimmed text from such a sender creates
\* no inbox row and sends the rejection notice to the chat of the message.
C1_AllowlistNonEmpty ==
    /\ [](\A k \in 1..Len(inbox) : inbox[k].from[2] \in ALLOWED_IDS)
    /\ [][(Handling /\ Handled.has /\ Handled.from \notin ALLOWED_IDS
           /\ Trim(Handled.text) # <<>>)
          => (inbox' = inbox /\ out' = <<RejectRequest(Handled.chat)>>)]_vars

\* C1 witness: the rejection notice has just been sent to the chat of user 3
C1_Rejected ==
    /\ out = <<RejectRequest(13)>>
    /\ hSend.kind = "reject"
    /\ lastUpdateId >= 1

\* C1 as stated: every message of a sender outside the allowlist creates no
\* inbox row and is answered with the rejection notice.
C1_AllowlistAnyMessage ==
    [][(Handling /\ Handled.has /\ Handled.from \notin ALLOWED_IDS)
       => (inbox' = inbox /\ out' = <<RejectRequest(Handled.chat)>>)]_vars

\* the send records of the checkForReply invocations in flight
InFlight == {checks[k] : k \in {j \in 1..MaxTicks : checks[j].st = "wait"}}

\* history[k] is a forwarded reply that follows two accepted messages of
\* different chats, with no reply forwarded before the second of them
AfterTwoChats(k) ==
    /\ k >= 3
    /\ history[k].ev = "forward"
    /\ history[k - 1].ev = "accept"
    /\ history[k - 2].ev = "accept"
    /\ history[k - 1].chat # history[k - 2].chat
    /\ \A j \in 1..(k - 1) : history[j].ev = "accept"

\* C2: when two authorized messages of different chats A then B were accepted
\* before any reply was forwarded, the next reply is forwarded to B and not to A.
C2_SingleSlot ==
    \A k \in 1..Len(history) :
        AfterTwoChats(k) =>
            /\ history[k].chat = history[k - 1].chat
            /\ history[k].chat # history[k - 2].chat
            /\ (k = Len(history) =>
                   \A r \in {out[j] : j \in 1..Len(out)} :
                       r.kind = "reply" => r.chat = history[k - 1].chat)

\* C2 witness: chat 11 then chat 12 were accepted, and the reply has just been
\* sent to chat 12
C2_SecondChatServed ==
    /\ Len(history) = 3
    /\ AfterTwoChats(3)
    /\ history[1].chat = 11
    /\ history[3].chat = 12
    /\ \E j \in 1..Len(out) : out[j].kind = "reply" /\ out[j].chat = 12

Chats == {s.chat : s \in Senders}
Replies == {Trim(t) : t \in Thinkings} \ {<<>>}

\* a message was accepted, its reply is awaited by a chat, and the agent has
\* since produced a new turn with the non-empty text t
ReplyDue(t) ==
    /\ waitingForReply
    /\ replyTargetChatId # NoChat
    /\ HasTurn(turns)
    /\ LatestTurn(turns).awaited
    /\ IsReply(LatestTurn(turns), lastTurnId)
    /\ Trim(LatestTurn(turns).thinking) = t

\* C3: once an authorized message is accepted and a new outbound record with
\* non-empty content is there, that content is eventually sent to the pending
\* chat and the typing signal is stopped.
C3_ReplyDelivered ==
    \A t \in Replies :
        ReplyDue(t) ~>
            /\ \E j \in 1..Len(out) :
                  /\ out[j].kind = "reply"
                  /\ out[j].chat = replyTargetChatId
                  /\ out[j].text = t
            /\ timers = {}

\* the turns table holds the turn that was there at boot and nothing else
OnlyBootTurn == HasTurn(turns) /\ \A k \in 1..Len(turns) : turns[k].id = BootTurn

\* C4: while the outbound record that existed at boot is the only one, no reply
\* is forwarded: none was, none is being sent, none is in flight.
C4_BootSafety ==
    OnlyBootTurn =>
        /\ \A k \in 1..Len(history) : history[k].ev # "forward"
        /\ \A j \in 1..Len(out) : out[j].kind # "reply"
        /\ InFlight = {}

\* C4 witness: the boot record has non-empty content, a message has been accepted
\* and acknowledged and awaits its reply, and no new record exists
C4_BootRecordPending ==
    /\ OnlyBootTurn
    /\ Trim(turns[1].thinking) # <<>>
    /\ waitingForReply
    /\ replyTargetChatId # NoChat
    /\ timers # {}
    /\ pollPc = "fetch"

\* C5: pendingChatId is non-null exactly when awaitingReply is true, in every
\* state either loop can observe.
C5_PairInvariant == (replyTargetChatId # NoChat) <=> waitingForReply

\* C6: at most one typing timer is live, and none is live unless a message
\* awaits its reply.
C6_TimerOwnership ==
    /\ Cardinality(timers) <= 1
    /\ ~waitingForReply => timers = {}

IsCommandText(t) == Trim(t) \in {CMD_START, CMD_HELLO, CMD_STATUS}

CommandAnswer(m) ==
    IF Trim(m.text) = CMD_STATUS
    THEN Request(m.chat, StatusText(turns, sleepUntil), TRUE, "status")
    ELSE Request(m.chat, WELCOME_TEXT, TRUE, "welcome")

\* C7: handling a message whose trimmed text is /start, /hello or /status
\* creates no inbox row and starts no wait for a reply; an authorized sender gets
\* the answer of the command, any other sender the rejection notice.
C7_CommandPrecedence ==
    [][(Handling /\ Handled.has /\ IsCommandText(Handled.text))
       => /\ inbox' = inbox
          /\ history' = history
          /\ UNCHANGED <<waitingForReply, replyTargetChatId, sleepUntil>>
          /\ out' = IF Handled.from \in ALLOWED_IDS
                    THEN <<CommandAnswer(Handled)>>
                    ELSE <<RejectRequest(Handled.chat)>>]_vars

\* C7 witness: /status of user 1 has just been answered and the inbox is empty
C7_StatusAnswered ==
    /\ Len(out) = 1
    /\ out[1].kind = "status"
    /\ out[1].chat = 11
    /\ inbox = <<>>

Accepts == Len(SelectSeq(history, LAMBDA e : e.ev = "accept"))

\* C8: the inbox never holds two rows with one id, and an insert of an id that
\* is already stored changes nothing in the inbox.
C8_IdempotentInsert ==
    /\ [](\A i, j \in 1..Len(inbox) : i # j => inbox[i].id # inbox[j].id)
    /\ [][(Handling /\ Len(history') > Len(history)
           /\ \E k \in 1..Len(inbox) : inbox[k].id = <<"tg", clock', Handled.from>>)
          => inbox' = inbox]_vars

\* C8 witness: two messages were injected under one id and one row is stored
C8_SecondInsertIgnored == Accepts = 2 /\ Len(inbox) = 1

\* the Markdown requests a sendMessage call has issued, in order
MarkdownSent(s) == SelectSeq(s.sent, LAMBDA r : r.markdown)

\* C9: the chunks of a text are contiguous, none is empty or longer than the
\* limit, their concatenation is the text, they are sent in order as separate
\* requests, a call that returns has sent all of them, and a text of 9000
\* symbols is sent in 3 chunks.
C9_Chunking ==
    /\ [](\A s \in InFlight :
            LET text == Trim(LatestTurn(turns).thinking)
                md == MarkdownSent(s)
            IN  /\ Concat(s.chunks) = text
                /\ \A k \in 1..Len(s.chunks) :
                      Len(s.chunks[k]) >= 1 /\ Len(s.chunks[k]) <= ChunkLimit
                /\ Len(text) = 9000 => Len(s.chunks) = 3
                /\ Len(md) = s.i
                /\ \A k \in 1..s.i : md[k].text = s.chunks[k] /\ md[k].chat = s.chat)
    /\ [][\A k \in 1..MaxTicks :
            (checks[k].st = "wait" /\ checks'[k].st = "idle"
             /\ replyTargetChatId' # replyTargetChatId)
            => checks[k].i = Len(checks[k].chunks)]_vars

\* C9 witness: the third and last chunk of a text of 9000 symbols is in flight
C9_ThreeChunksSent ==
    \E s \in InFlight :
        /\ Len(Trim(LatestTurn(turns).thinking)) = 9000
        /\ Len(s.chunks) = 3
        /\ s.i = 3

\* C10: no failed poll and no failed handleMessage ends the ingestion loop:
\* the loop is always somewhere in its cycle, a back-off is followed by the
\* next getUpdates, and getUpdates is issued again and again.
C10_PollingResilience ==
    /\ [](pollPc \in {"fetch", "sleep", "batch", "typing", "send"})
    /\ (pollPc = "sleep") ~> (pollPc = "fetch")
    /\ []<><<pollPc' = "fetch">>_vars

\* C10 witness: a poll has failed after an update was handled; the loop backs off
C10_BackingOff == pollPc = "sleep" /\ lastUpdateId >= 1

\* C11: the cursor lastUpdateId covers no update of the batch that is still to be
\* handled, and no update whose handling has started and is still in progress.
C11_CursorOrdering ==
    /\ [](\A k \in 1..Len(batch) : batch[k].update_id > lastUpdateId)
    /\ [][(Handling /\ pollPc' \in {"typing", "send"})
          => lastUpdateId' < Head(batch).update_id]_vars

\* C12: however often Telegram delivers a chat message, the inbox holds one row
\* for it: with every update an accepted message, never more rows than updates.
C12_RedeliveryAbsorbed == Len(inbox) <= updateSeq

\* a reply is awaited, the agent has produced a new turn with the non-empty text
\* t, and a newer turn with blank content has followed it
Hidden(t) ==
    /\ waitingForReply
    /\ replyTargetChatId # NoChat
    /\ Len(turns) >= 2
    /\ Trim(LatestTurn(turns).thinking) = <<>>
    /\ LET prev == turns[Len(turns) - 1]
       IN  /\ prev.awaited
           /\ prev.id > lastTurnId
           /\ Trim(prev.thinking) = t

\* C13: a new non-empty record that is followed by a newer blank record while a
\* reply is awaited is still forwarded, eventually, to the pending chat.
C13_CandidateSelection ==
    \A t \in Replies :
        Hidden(t) ~> (\E j \in 1..Len(out) : out[j].kind = "reply" /\ out[j].text = t)

\* the step in which checkForReply forwards the latest turn
Forwarding == Len(history') > Len(history) /\ history'[Len(history')].ev = "forward"

\* C14: a turn that checkForReply forwards was produced while a reply was
\* awaited; a turn produced while none was awaited is never forwarded.
C14_ReplyFreshness == [][Forwarding => LatestTurn(turns).awaited]_vars

\* no reply is awaited, or there is no turn, or the latest turn is the one
\* observed last, or its content is blank
Deferred ==
    \/ ~waitingForReply
    \/ ~HasTurn(turns)
    \/ LatestTurn(turns).id = lastTurnId
    \/ Trim(LatestTurn(turns).thinking) = <<>>

\* a reply-watch tick that does nothing: no request, no change of state
TickNoOp ==
    /\ out' = <<>>
    /\ UNCHANGED <<lastTurnId, waitingForReply, replyTargetChatId, typingInterval, timers,
                   checks, history>>

\* C15: a reply-watch tick that runs while no reply is awaited, or while the
\* latest turn is absent, already observed or blank, sends nothing and leaves
\* lastTurnId, waitingForReply, replyTargetChatId and the typing timer as they are.
C15_DeferralNoOp == Deferred => ~ENABLED (ReplyTick /\ ~TickNoOp)

\* C15 witness: a reply is awaited with its typing timer live, the latest turn is
\* new but blank, and the tick that fires now ends at line 181
C15_BlankTurnDeferred ==
    /\ waitingForReply
    /\ replyTargetChatId # NoChat
    /\ timers # {}
    /\ HasTurn(turns)
    /\ LatestTurn(turns).id # lastTurnId
    /\ Trim(LatestTurn(turns).thinking) = <<>>
    /\ ENABLED <<ReplyTick>>_vars

\* the plain-text repeat of chunk i of the call s
PlainRetry(s) == Request(s.chat, s.chunks[s.i], FALSE, s.kind)

\* C16: a Markdown request that is refused is repeated once as plain text, and
\* whatever becomes of that repeat, the call goes on with the next chunk.
C16_FormattingFallback ==
    [][\A k \in 1..MaxTicks :
          LET s == checks[k]
              t == checks'[k]
          IN  /\ (s.st = "wait" /\ ~s.plain /\ t.st = "wait" /\ t.plain)
                  => (t.i = s.i /\ t.sent = Append(s.sent, PlainRetry(s)))
              /\ (s.st = "wait" /\ s.plain /\ s.i < Len(s.chunks) /\ t # s)
                  => (t.st = "wait" /\ t.i = s.i + 1 /\ ~t.plain)]_vars

\* the chat of the last message accepted before history[k]
LastAccepted(k) ==
    LET before == {j \in 1..(k - 1) : history[j].ev = "accept"}
    IN  IF before = {} THEN NoChat
        ELSE history[CHOOSE j \in before : \A i \in before : i <= j].chat

\* a step of the handleMessage that answers a sender outside the allowlist
RejectStep ==
    \/ Handling /\ Handled.has /\ Handled.from \notin ALLOWED_IDS
    \/ pollPc = "send" /\ hSend.kind = "reject" /\ hSend' # hSend

\* C17: the steps that handle a message of a sender outside the allowlist leave
\* waitingForReply, replyTargetChatId, lastTurnId, the typing timer, sleep_until
\* and the inbox as they were, and every reply is forwarded to the chat of the
\* last accepted message, which is the chat of an allowlisted sender.
C17_RejectLeavesCorrelation ==
    /\ [][RejectStep => UNCHANGED <<waitingForReply, replyTargetChatId, lastTurnId,
                                    typingInterval, timers, sleepUntil, inbox, history>>]_vars
    /\ [](\A k \in 1..Len(history) :
            history[k].ev = "forward" =>
                /\ history[k].chat = LastAccepted(k)
                /\ history[k].chat \in {s.chat : s \in {x \in Senders : x.from \in ALLOWED_IDS}})

\* C17 witness: while chat 11 awaits its reply, a message of user 3 was handled;
\* its rejection is still in flight and the reply has just been sent to chat 11
C17_RejectedWhilePending ==
    /\ pollPc = "send"
    /\ hSend.kind = "reject"
    /\ hChat = 13
    /\ history = <<[ev |-> "accept", chat |-> 11], [ev |-> "forward", chat |-> 11]>>
    /\ \E j \in 1..Len(out) : out[j].kind = "reply" /\ out[j].chat = 11

\* the ingestion loop is suspended in a transport call
PollBlocked == pollPc \in {"fetch", "typing", "send"}

\* C18: while the ingestion loop is suspended in getUpdates, sendTyping or
\* sendMessage, a tick can forward the pending reply without the ingestion loop
\* moving; while a checkForReply is suspended in sendMessage, the ingestion loop
\* can receive its updates and handle the next message without that call moving.
C18_LoopIndependence ==
    /\ (ReplyFound /\ PollBlocked)
        => ENABLED (ReplyTick /\ Forwarding /\ UNCHANGED <<pollPc, batch, hSend, hChat>>)
    /\ (InFlight # {} /\ pollPc = "fetch")
        => ENABLED (PollResponse /\ pollPc' = "batch" /\ UNCHANGED checks)
    /\ (InFlight # {} /\ pollPc = "batch" /\ batch # <<>>)
        => ENABLED (HandleUpdate /\ UNCHANGED checks)

\* C18 witness: the reply has just been forwarded while handleMessage is
\* suspended in the sendMessage of its acknowledgment
C18_ForwardedDuringAck ==
    /\ pollPc = "send"
    /\ hSend.kind = "ack"
    /\ history # <<>>
    /\ history[Len(history)].ev = "forward"
    /\ \E j \in 1..Len(out) : out[j].kind = "reply"

Forwards == Len(SelectSeq(history, LAMBDA e : e.ev = "forward"))

\* C19: a step that forwards a reply forwards the latest turn, whose id is
\* greater than every id forwarded before (lastTurnId never decreases), so no
\* turn id is forwarded twice and there are never more forwards than turns the
\* agent has produced.
C19_AtMostOnce ==
    /\ [][Forwarding =>
            /\ lastTurnId' = LatestTurn(turns).id
            /\ lastTurnId' > lastTurnId
            /\ \E j \in 1..Len(out') :
                  out'[j].kind = "reply" /\ out'[j].text = Trim(LatestTurn(turns).thinking)]_vars
    /\ [][lastTurnId' >= lastTurnId]_vars
    /\ [](Forwards <= Cardinality({k \in 1..Len(turns) : turns[k].id # BootTurn}))

\* C19 witness: two replies were forwarded and both checkForReply invocations
\* are still awaiting their sendMessage
C19_OverlappingTicks ==
    /\ Forwards = 2
    /\ checks[1].st = "wait"
    /\ checks[2].st = "wait"

\* the sender whose chat is c
UserOf(c) == (CHOOSE s \in Senders : s.chat = c).from

\* handleMessage is past line 246 and its acknowledgment is due or being sent
Acking == pollPc = "typing" \/ (pollPc = "send" /\ hSend.kind = "ack")

\* the step in which handleMessage accepts a message (lines 242-246)
Accepting == Len(history') > Len(history) /\ history'[Len(history')].ev = "accept"

\* C20: an acknowledgment is only sent by a handleMessage that has accepted its
\* message, to the chat of that message; by then the inbox holds a row of the
\* sender, and the step that accepted the message had inserted the row, cleared
\* sleep_until and set waitingForReply and replyTargetChatId for that chat.
C20_AckAfterInject ==
    /\ [](\A j \in 1..Len(out) :
            out[j].kind = "ack" =>
                (pollPc = "send" /\ hSend.kind = "ack" /\ out[j].chat = hChat))
    /\ [](Acking =>
            /\ LastAccepted(Len(history) + 1) = hChat
            /\ \E k \in 1..Len(inbox) :
                  /\ inbox[k].from = <<"telegram", UserOf(hChat)>>
                  /\ inbox[k].content[1] = INJECT_PREFIX[1])
    /\ [][Accepting =>
            /\ pollPc' = "typing"
            /\ hChat' = Handled.chat
            /\ history'[Len(history')].chat = Handled.chat
            /\ waitingForReply'
            /\ replyTargetChatId' = Handled.chat
            /\ ~sleepUntil'
            /\ \E k \in 1..Len(inbox') :
                  /\ inbox'[k].id = <<"tg", clock', Handled.from>>
                  /\ inbox'[k].content = INJECT_PREFIX \o Trim(Handled.text)]_vars

====
